---- MODULE Spec2Model ----
(***************************************************************************)
(* stata_to_df: validation of a raw configuration mapping (config.py) and  *)
(* the load of the configured variables from a Stata session (__init__.py).*)
(*                                                                         *)
(* Python values are tagged tuples: <<"none">> is None, <<"str", s>> a str, *)
(* <<"int">> some int, <<"list", items>> a list, <<"dict", d>> a dict and   *)
(* <<"absent">> marks a key that the dict does not hold.                    *)
(***************************************************************************)
EXTENDS Integers, Sequences, FiniteSets, TLC

\* Longest row_var / col_var list of a raw configuration.
MaxLen == 2
\* Largest number of rows of the table the Stata session returns.
MaxRows == 1

\* The variable names of the well-typed raw configurations ("" is a str
\* too), and the ones of the raw configurations of any shape.
Names == {"", "w", "x"}
FewNames == {"w"}

PyNone == <<"none">>
PyInt == <<"int">>
Absent == <<"absent">>
PyStr(s) == <<"str", s>>
PyList(items) == <<"list", items>>
PyDict(d) == <<"dict", d>>

IsStr(v) == v[1] = "str"
IsList(v) == v[1] = "list"
IsDict(v) == v[1] = "dict"

\* Python truthiness of None and of a str: `if self.pweight:`.
Truthy(v) == IF IsStr(v) THEN v[2] # "" ELSE FALSE

Range(s) == {s[i] : i \in 1..Len(s)}

(***************************************************************************)
(* Exceptions: class, message and __cause__ (<<>> or <<the cause>>).        *)
(***************************************************************************)
Taxonomy == {"StataToDfBaseError", "ConfigValidationError", "DataLoaderError"}

\* Built-in classes that derive from Exception, and the ones that derive
\* from BaseException only; the taxonomy derives from Exception.
ErrorClasses == {"ImportError", "RuntimeError", "ValueError", "TypeError", "ValidationError"}
SignalClasses == {"KeyboardInterrupt"}
IsException(cls) == cls \in Taxonomy \cup ErrorClasses /\ cls \notin SignalClasses
IsStataToDfBaseError(cls) == cls \in Taxonomy

NoLines == <<>>
NoVars == <<>>
Msg(text, lines, vars, detail) ==
    [text |-> text, lines |-> lines, vars |-> vars, detail |-> detail]
Exc(cls, msg, cause) == [cls |-> cls, msg |-> msg, cause |-> cause]
\* An exception of a collaborator (pydantic aside): str(e) is its text.
External(cls, text) == Exc(cls, Msg(text, NoLines, NoVars, ""), <<>>)
StrOf(e) == e.msg.text

Return(v) == [tag |-> "return", value |-> v]
Raise(e) == [tag |-> "raise", exc |-> e]
Returned(r) == r.tag = "return"
Raised(r) == r.tag = "raise"

(***************************************************************************)
(* pydantic: field validation of ConfigModel (lax mode of pydantic v2).     *)
(* One entry of ValidationError.errors() is [type, loc, msg].               *)
(***************************************************************************)
NoArg == [field |-> "", overlap |-> {}, list |-> <<>>]
ErrMsg(text) == [text |-> text] @@ NoArg
FieldError(type, loc) ==
    [type |-> type, loc |-> loc,
     msg |-> ErrMsg(CASE type = "missing" -> "Field required"
                      [] type = "list_type" -> "Input should be a valid list"
                      [] type = "string_type" -> "Input should be a valid string"
                      [] type = "too_short" -> "List should have at least 1 item after validation, not 0"
                      [] type = "model_type" -> "Input should be a valid dictionary or instance of ConfigModel")]

RECURSIVE ItemErrors(_, _, _)
\* The string_type errors of the items i..Len(items), in list order; the
\* location holds the 0-based index.
ItemErrors(name, items, i) ==
    IF i > Len(items) THEN <<>>
    ELSE (IF IsStr(items[i]) THEN <<>> ELSE <<FieldError("string_type", <<name, i - 1>>)>>)
         \o ItemErrors(name, items, i + 1)

\* row_var: List[str] = Field(..., min_length=1)
ListField(name, raw) ==
    IF raw = Absent THEN [value |-> <<>>, errors |-> <<FieldError("missing", <<name>>)>>]
    ELSE IF ~IsList(raw) THEN [value |-> <<>>, errors |-> <<FieldError("list_type", <<name>>)>>]
    ELSE LET items == raw[2]
             bad == ItemErrors(name, items, 1)
         IN IF bad # <<>> THEN [value |-> <<>>, errors |-> bad]
            ELSE IF Len(items) < 1
                 THEN [value |-> <<>>, errors |-> <<FieldError("too_short", <<name>>)>>]
                 ELSE [value |-> items, errors |-> <<>>]

\* value_var: str
StrField(name, raw) ==
    IF raw = Absent THEN [value |-> PyNone, errors |-> <<FieldError("missing", <<name>>)>>]
    ELSE IF ~IsStr(raw) THEN [value |-> PyNone, errors |-> <<FieldError("string_type", <<name>>)>>]
    ELSE [value |-> raw, errors |-> <<>>]

\* pweight: Optional[str] = None
OptionalStrField(name, raw) ==
    IF raw = Absent \/ raw = PyNone THEN [value |-> PyNone, errors |-> <<>>]
    ELSE IF ~IsStr(raw) THEN [value |-> PyNone, errors |-> <<FieldError("string_type", <<name>>)>>]
    ELSE [value |-> raw, errors |-> <<>>]

(***************************************************************************)
(* ConfigModel.check_variable_names_distinct (mode='after')                 *)
(***************************************************************************)
OverlapText == "Overlap detected between index variables (row_var, col_var) and core variables (value_var, pweight, secondary_ref): "
DuplicateText == "Duplicate variable names found within "

ValueErrorOverlap(overlap) ==
    Exc("ValueError", [text |-> OverlapText, field |-> "", overlap |-> overlap, list |-> <<>>], <<>>)
ValueErrorDuplicate(field, list) ==
    Exc("ValueError", [text |-> DuplicateText, field |-> field, overlap |-> {}, list |-> list], <<>>)

core_vars(self) ==
    {self.value_var}
      \cup (IF Truthy(self.pweight) THEN {self.pweight} ELSE {})
      \cup (IF Truthy(self.secondary_ref) THEN {self.secondary_ref} ELSE {})

all_index_vars(self) == Range(self.row_var \o self.col_var)

\* Variant: a name shared by row_var and col_var counts as a duplicate.
check_variable_names_distinct_NoShared(self) ==
    LET overlap == core_vars(self) \cap all_index_vars(self)
        joined == self.row_var \o self.col_var
    IN IF overlap # {} THEN Raise(ValueErrorOverlap(overlap))
       ELSE IF Len(joined) # Cardinality(Range(joined))
            THEN Raise(ValueErrorDuplicate("row_var", joined))
       ELSE Return(self)

\* Variant: col_var is checked for duplicates before row_var.
check_variable_names_distinct_ColFirst(self) ==
    LET overlap == core_vars(self) \cap all_index_vars(self)
    IN IF overlap # {} THEN Raise(ValueErrorOverlap(overlap))
       ELSE IF Len(self.col_var) # Cardinality(Range(self.col_var))
            THEN Raise(ValueErrorDuplicate("col_var", self.col_var))
       ELSE IF Len(self.row_var) # Cardinality(Range(self.row_var))
            THEN Raise(ValueErrorDuplicate("row_var", self.row_var))
       ELSE Return(self)

check_variable_names_distinct(self) ==
    LET overlap == core_vars(self) \cap all_index_vars(self)
    IN IF overlap # {} THEN Raise(ValueErrorOverlap(overlap))
       ELSE IF Len(self.row_var) # Cardinality(Range(self.row_var))
            THEN Raise(ValueErrorDuplicate("row_var", self.row_var))
       ELSE IF Len(self.col_var) # Cardinality(Range(self.col_var))
            THEN Raise(ValueErrorDuplicate("col_var", self.col_var))
       ELSE Return(self)

(***************************************************************************)
(* ConfigModel.model_validate: the fields first, all their errors           *)
(* collected in field order; the model validator only when there is none,   *)
(* its ValueError becoming one value_error entry at location ().            *)
(***************************************************************************)
ValidationError(errors) ==
    Exc("ValidationError", Msg("validation error for ConfigModel", errors, NoVars, ""), <<>>)

\* Variant: validation stops at the first field error.
model_validate_FailFast(config_dict) ==
    IF ~IsDict(config_dict)
    THEN Raise(ValidationError(<<FieldError("model_type", <<>>)>>))
    ELSE LET d == config_dict[2]
             row == ListField("row_var", d.row_var)
             col == ListField("col_var", d.col_var)
             val == StrField("value_var", d.value_var)
             pw == OptionalStrField("pweight", d.pweight)
             sec == OptionalStrField("secondary_ref", d.secondary_ref)
             errors == row.errors \o col.errors \o val.errors \o pw.errors \o sec.errors
             self == [row_var |-> row.value, col_var |-> col.value, value_var |-> val.value,
                      pweight |-> pw.value, secondary_ref |-> sec.value]
         IN IF errors # <<>> THEN Raise(ValidationError(<<errors[1]>>))
            ELSE LET checked == check_variable_names_distinct(self)
                 IN IF Raised(checked)
                    THEN Raise(ValidationError(
                            <<[type |-> "value_error", loc |-> <<>>, msg |-> checked.exc.msg]>>))
                    ELSE checked

model_validate(config_dict) ==
    IF ~IsDict(config_dict)
    THEN Raise(ValidationError(<<FieldError("model_type", <<>>)>>))
    ELSE LET d == config_dict[2]
             row == ListField("row_var", d.row_var)
             col == ListField("col_var", d.col_var)
             val == StrField("value_var", d.value_var)
             pw == OptionalStrField("pweight", d.pweight)
             sec == OptionalStrField("secondary_ref", d.secondary_ref)
             errors == row.errors \o col.errors \o val.errors \o pw.errors \o sec.errors
             self == [row_var |-> row.value, col_var |-> col.value, value_var |-> val.value,
                      pweight |-> pw.value, secondary_ref |-> sec.value]
         IN IF errors # <<>> THEN Raise(ValidationError(errors))
            ELSE LET checked == check_variable_names_distinct(self)
                 IN IF Raised(checked)
                    THEN Raise(ValidationError(
                            <<[type |-> "value_error", loc |-> <<>>, msg |-> checked.exc.msg]>>))
                    ELSE checked

(***************************************************************************)
(* validate_config                                                          *)
(***************************************************************************)
\* "- {err['loc']}: {err['msg']}" for each entry of e.errors()
ErrorLines(errors) == [i \in 1..Len(errors) |-> [loc |-> errors[i].loc, msg |-> errors[i].msg]]

validate_config(config_dict) ==
    IF ~(IsDict(config_dict) \/ IsList(config_dict))
    THEN \* 'sdc_rules' in config_dict raises TypeError: the second handler
         LET e == External("TypeError", "argument is not iterable")
         IN Raise(Exc("ConfigValidationError",
                      Msg("An unexpected error occurred during configuration validation: ",
                          NoLines, NoVars, StrOf(e)), <<e>>))
    ELSE LET r == model_validate(config_dict)
         IN IF Raised(r)
            THEN Raise(Exc("ConfigValidationError",
                           Msg("Configuration validation failed:",
                               ErrorLines(r.exc.msg.lines), NoVars, ""), <<r.exc>>))
            ELSE r

(***************************************************************************)
(* setup_stata: the two module globals, then the import and init of         *)
(* pystata, whose outcome `pystata` is the handle or the exception raised.  *)
(***************************************************************************)
PystataHandle == Return("pystata.stata")

\* Variant: STATA_EDITION is not checked before pystata is initialised.
setup_stata_NoEditionCheck(path, edition, pystata) ==
    IF ~Truthy(path)
    THEN Raise(Exc("DataLoaderError",
                   Msg("PYSTATA_PATH environment variable not set. Cannot initialize pystata.",
                       NoLines, NoVars, ""), <<>>))
    ELSE pystata

setup_stata(path, edition, pystata) ==
    IF ~Truthy(path)
    THEN Raise(Exc("DataLoaderError",
                   Msg("PYSTATA_PATH environment variable not set. Cannot initialize pystata.",
                       NoLines, NoVars, ""), <<>>))
    ELSE IF ~Truthy(edition)
    THEN Raise(Exc("DataLoaderError",
                   Msg("STATA_EDITION environment variable not set. Cannot initialize pystata.",
                       NoLines, NoVars, ""), <<>>))
    ELSE IF Returned(pystata) THEN pystata
    ELSE IF pystata.exc.cls = "ImportError"
    THEN Raise(Exc("DataLoaderError",
                   Msg("Failed to import pystata. Ensure PYSTATA_PATH is correct and pystata is installed. Error: ",
                       NoLines, <<path>>, StrOf(pystata.exc)), <<pystata.exc>>))
    ELSE IF IsException(pystata.exc.cls)
    THEN Raise(Exc("DataLoaderError",
                   Msg("Failed to initialize pystata. Error: ",
                       NoLines, NoVars, StrOf(pystata.exc)), <<pystata.exc>>))
    ELSE pystata

(***************************************************************************)
(* load_data                                                                *)
(***************************************************************************)
\* lines 101-105: the set of the names to request
RequiredVars(config) ==
    Range(config.row_var \o config.col_var \o <<config.value_var>>)
      \cup (IF Truthy(config.pweight) THEN {config.pweight} ELSE {})
      \cup (IF Truthy(config.secondary_ref) THEN {config.secondary_ref} ELSE {})

\* list(required_vars): the elements of the set, each once, in any order
ListsOf(S) == {s \in [1..Cardinality(S) -> S] : Range(s) = S}

\* lines 117-129: the table is logged (a warning when it is empty) and
\* returned; `fetched` is what pdataframe_from_data did.
\* Variant: an empty table is an error.
load_data_try_RejectEmpty(fetched) ==
    IF Returned(fetched) /\ fetched.value.nrows = 0
    THEN Raise(External("ValueError", "Loaded DataFrame from Stata is empty."))
    ELSE fetched

load_data_try(fetched) ==
    IF Returned(fetched) THEN Return(fetched.value) ELSE fetched

\* The handlers of the try block: `r` is what the body did.
\* Variant: one handler for every Exception, DataLoaderError included.
load_data_handlers_WrapAll(r, import_vars) ==
    IF Returned(r) THEN r
    ELSE IF IsException(r.exc.cls)
    THEN Raise(Exc("DataLoaderError",
                   Msg("Failed to load data from Stata. Ensure variables exist. Error: ",
                       NoLines, import_vars, StrOf(r.exc)), <<r.exc>>))
    ELSE r

load_data_handlers(r, import_vars) ==
    IF Returned(r) THEN r
    ELSE IF r.exc.cls = "DataLoaderError" THEN Raise(r.exc)
    ELSE IF IsException(r.exc.cls)
    THEN Raise(Exc("DataLoaderError",
                   Msg("Failed to load data from Stata. Ensure variables exist. Error: ",
                       NoLines, import_vars, StrOf(r.exc)), <<r.exc>>))
    ELSE r

(***************************************************************************)
(* stata_to_df: both handlers log and re-raise.                             *)
(***************************************************************************)
\* Variant: what is no taxonomy error is wrapped as the base error.
stata_to_df_handlers_Wrap(r) ==
    IF Returned(r) THEN r
    ELSE IF IsStataToDfBaseError(r.exc.cls) THEN Raise(r.exc)
    ELSE Raise(Exc("StataToDfBaseError",
                   Msg("Unexpected error in export: ", NoLines, NoVars, StrOf(r.exc)), <<r.exc>>))

stata_to_df_handlers(r) ==
    IF Returned(r) THEN r
    ELSE IF IsStataToDfBaseError(r.exc.cls) THEN Raise(r.exc)
    ELSE IF IsException(r.exc.cls) THEN Raise(r.exc)
    ELSE r

(***************************************************************************)
(* One call of stata_to_df(config_dict).                                    *)
(***************************************************************************)
VARIABLES
    PYSTATA_PATH,    \* module global, read from the environment at import
    STATA_EDITION,   \* module global, read from the environment at import
    config_dict,     \* the argument of stata_to_df
    pc,              \* "validate", "load", "fetch" or "done"
    config,          \* <<>> or <<the ConfigModel validate_config returned>>
    required_vars,   \* load_data's set of names
    st_import_vars,  \* the list passed to pdataframe_from_data
    calls,           \* the calls made so far, in order
    df,              \* <<>> or <<the table pdataframe_from_data returned>>
    raised,          \* per function, <<>> or <<the exception it raised>>
    result           \* what stata_to_df did: nothing yet, a return or a raise

vars == <<PYSTATA_PATH, STATA_EDITION, config_dict, pc, config, required_vars,
          st_import_vars, calls, df, raised, result>>

Functions == {"validate_config", "setup_stata", "pdataframe_from_data", "load_data"}
NotRaised == [f \in Functions |-> <<>>]
Running == [tag |-> "running"]

\* The raw configurations of a call: the mappings of any shape (a key
\* missing, an int for a list or a str, an int in a list) over FewNames, the
\* well-typed mappings over Names, and two arguments that are no mapping.
Strs(N) == {PyStr(n) : n \in N}
Lists(items) == {PyList(s) : s \in UNION {[1..n -> items] : n \in 0..MaxLen}}
Dicts(lists, strs, optionals) ==
    {PyDict(d) : d \in [row_var : lists, col_var : lists, value_var : strs,
                        pweight : optionals, secondary_ref : optionals]}
RawConfigs ==
    Dicts({Absent, PyInt} \cup Lists(Strs(FewNames) \cup {PyInt}),
          {Absent, PyInt} \cup Strs(FewNames),
          {Absent, PyInt} \cup Strs(FewNames))
      \cup Dicts(Lists(Strs(Names)), Strs(Names), {Absent} \cup Strs(Names))
      \cup {PyNone, PyList(<<>>)}

EnvValues(s) == {PyNone, PyStr(s)}

\* What the import and init of pystata may do, and what the fetch may do.
PystataErrors ==
    {Raise(External("ImportError", "No module named 'pystata'")),
     Raise(External("RuntimeError", "failed to initialize Stata"))}
DataFrame(columns, nrows) == [columns |-> columns, nrows |-> nrows]
FetchErrors ==
    {Raise(External("ValueError", "variable not found")),
     Raise(External("RuntimeError", "r(198)"))}
Interrupt == Raise(External("KeyboardInterrupt", ""))

Init ==
    /\ PYSTATA_PATH \in EnvValues("/opt/stata/utilities")
    /\ STATA_EDITION \in EnvValues("mp")
    /\ config_dict \in RawConfigs
    /\ pc = "validate"
    /\ config = <<>>
    /\ required_vars = {}
    /\ st_import_vars = <<>>
    /\ calls = <<>>
    /\ df = <<>>
    /\ raised = NotRaised
    /\ result = Running

\* stata_to_df line 24, and the handlers when validate_config raises
ValidateConfig ==
    /\ pc = "validate"
    /\ calls' = Append(calls, "validate_config")
    /\ LET r == validate_config(config_dict)
       IN IF Returned(r)
          THEN /\ config' = <<r.value>>
               /\ pc' = "load"
               /\ UNCHANGED <<raised, result>>
          ELSE /\ raised' = [raised EXCEPT !["validate_config"] = <<r.exc>>]
               /\ result' = stata_to_df_handlers(r)
               /\ pc' = "done"
               /\ UNCHANGED config
    /\ UNCHANGED <<PYSTATA_PATH, STATA_EDITION, config_dict, required_vars, st_import_vars, df>>

\* load_data lines 101-109, and the handlers when setup_stata raises
SetupStata(pystata) ==
    /\ pc = "load"
    /\ required_vars' = RequiredVars(config[1])
    /\ calls' = Append(calls, "setup_stata")
    /\ LET s == setup_stata(PYSTATA_PATH, STATA_EDITION, pystata)
           l == load_data_handlers(s, st_import_vars)
       IN IF Returned(s)
          THEN /\ pc' = "fetch"
               /\ UNCHANGED <<raised, result>>
          ELSE /\ raised' = [raised EXCEPT !["setup_stata"] = <<s.exc>>,
                                           !["load_data"] = <<l.exc>>]
               /\ result' = stata_to_df_handlers(l)
               /\ pc' = "done"
    /\ UNCHANGED <<PYSTATA_PATH, STATA_EDITION, config_dict, config, st_import_vars, df>>

\* load_data lines 112-139, and stata_to_df's return or handlers
FetchData(import_vars, fetched) ==
    /\ pc = "fetch"
    /\ st_import_vars' = import_vars
    /\ calls' = Append(calls, "pdataframe_from_data")
    /\ df' = IF Returned(fetched) THEN <<fetched.value>> ELSE <<>>
    /\ LET l == load_data_handlers(load_data_try(fetched), import_vars)
       IN /\ raised' = IF Returned(fetched) THEN raised
                       ELSE [raised EXCEPT !["pdataframe_from_data"] = <<fetched.exc>>,
                                           !["load_data"] = <<l.exc>>]
          /\ result' = stata_to_df_handlers(l)
    /\ pc' = "done"
    /\ UNCHANGED <<PYSTATA_PATH, STATA_EDITION, config_dict, config, required_vars>>

SetupOk == SetupStata(PystataHandle)
SetupFails == \E e \in PystataErrors : SetupStata(e)
FetchOk ==
    \E import_vars \in ListsOf(required_vars), n \in 0..MaxRows :
        FetchData(import_vars, Return(DataFrame(import_vars, n)))
FetchFails ==
    \E import_vars \in ListsOf(required_vars), e \in FetchErrors :
        FetchData(import_vars, e)
SetupInterrupted == SetupStata(Interrupt)
FetchInterrupted == \E import_vars \in ListsOf(required_vars) : FetchData(import_vars, Interrupt)

Next == ValidateConfig \/ SetupOk \/ SetupFails \/ FetchOk \/ FetchFails

Spec == Init /\ [][Next]_vars

\* The same call when the user may also interrupt the session (Ctrl-C).
NextInterruptible == Next \/ SetupInterrupted \/ FetchInterrupted

SpecInterruptible == Init /\ [][NextInterruptible]_vars

(***************************************************************************)
(* What a raw configuration says, read off the mapping itself.              *)
(***************************************************************************)
RawItemsOf(v) == IF IsList(v) THEN Range(v[2]) ELSE {}
RawIndexNames(d) == RawItemsOf(d.row_var) \cup RawItemsOf(d.col_var)
\* value_var and the pweight / secondary_ref that are present
RawCoreNames(d) == {v \in {d.value_var, d.pweight, d.secondary_ref} : IsStr(v)}
RawOverlap(d) == RawCoreNames(d) \cap RawIndexNames(d)
\* the list holds the same name at two places
RawHasDuplicate(v) ==
    /\ IsList(v)
    /\ \E i, j \in 1..Len(v[2]) : i < j /\ IsStr(v[2][i]) /\ v[2][i] = v[2][j]
RawValidList(v) ==
    /\ IsList(v)
    /\ Len(v[2]) >= 1
    /\ \A i \in 1..Len(v[2]) : IsStr(v[2][i])
RawValidOptional(v) == v = Absent \/ v = PyNone \/ IsStr(v)
\* no required field missing, no wrong type, no empty list
RawStructurallyValid(d) ==
    /\ RawValidList(d.row_var)
    /\ RawValidList(d.col_var)
    /\ IsStr(d.value_var)
    /\ RawValidOptional(d.pweight)
    /\ RawValidOptional(d.secondary_ref)
\* the locations at which the schema is violated
RawListViolations(name, v) ==
    IF ~IsList(v) \/ Len(v[2]) = 0 THEN {<<name>>}
    ELSE {<<name, i - 1>> : i \in {k \in 1..Len(v[2]) : ~IsStr(v[2][k])}}
RawStructuralViolations(d) ==
    RawListViolations("row_var", d.row_var)
      \cup RawListViolations("col_var", d.col_var)
      \cup (IF IsStr(d.value_var) THEN {} ELSE {<<"value_var">>})
      \cup (IF RawValidOptional(d.pweight) THEN {} ELSE {<<"pweight">>})
      \cup (IF RawValidOptional(d.secondary_ref) THEN {} ELSE {<<"secondary_ref">>})
OptionalValue(v) == IF IsStr(v) THEN v ELSE PyNone

Validated == pc # "validate" /\ IsDict(config_dict)
ValidationFailed ==
    /\ raised["validate_config"] # <<>>
    /\ raised["validate_config"][1].cls = "ConfigValidationError"
    /\ config = <<>>
ValidationLines == raised["validate_config"][1].msg.lines
\* a line of the message prints the name: in the overlap set or in the list
LineNames(line, v) == v \in line.msg.overlap \/ v \in Range(line.msg.list)
\* a line of the message is about the field: as its location, or as the
\* field the duplicate message names
LineNamesField(line, f) ==
    \/ line.loc # <<>> /\ line.loc[1] = f
    \/ line.msg.text = DuplicateText /\ line.msg.field = f
IsDuplicateLine(line, f, list) ==
    /\ line.loc = <<>>
    /\ line.msg.text = DuplicateText
    /\ line.msg.field = f
    /\ line.msg.list = list
IsCrossFieldLine(line) == line.loc = <<>>

\* C1: every raw configuration in which value_var, a present pweight or a
\* present secondary_ref equals an element of row_var or col_var is rejected
\* with a ConfigValidationError whose message names every overlapping name,
\* and no ConfigModel is returned (stated for the configurations that pass
\* the field validation, the ones the cross-field check sees).
C1_OverlapRejected ==
    Validated =>
        LET overlap == RawOverlap(config_dict[2])
        IN (RawStructurallyValid(config_dict[2]) /\ overlap # {}) =>
             /\ ValidationFailed
             /\ \A v \in overlap :
                  \E i \in 1..Len(ValidationLines) : LineNames(ValidationLines[i], v)

\* C2: a configuration whose value_var and pweight are the same name, with
\* valid row_var and col_var that do not hold that name, is rejected with a
\* ConfigValidationError citing the overlap {name}.
C2_SameCoreNameRejected ==
    Validated =>
        LET d == config_dict[2]
        IN (/\ RawStructurallyValid(d)
            /\ d.pweight = d.value_var
            /\ d.secondary_ref = Absent
            /\ ~RawHasDuplicate(d.row_var)
            /\ ~RawHasDuplicate(d.col_var)
            /\ d.value_var \notin RawIndexNames(d))
           => /\ ValidationFailed
              /\ \E i \in 1..Len(ValidationLines) :
                   ValidationLines[i].msg.overlap = {d.value_var}

C4_DuplicateFieldNamed ==
    Validated =>
        LET d == config_dict[2]
        IN \A f \in {"row_var", "col_var"} :
             (RawStructurallyValid(d) /\ RawHasDuplicate(d[f])) =>
               /\ ValidationFailed
               /\ \E i \in 1..Len(ValidationLines) : LineNamesField(ValidationLines[i], f)

\* C4 amended: a structurally valid configuration in which row_var or
\* col_var holds a name twice is rejected with a ConfigValidationError of one
\* message; when no value_var, pweight or secondary_ref is among the row_var
\* and col_var names, that message is the duplicate message of row_var if
\* row_var holds a duplicate, and of col_var otherwise.
C4_FirstDuplicateNamed ==
    Validated =>
        LET d == config_dict[2]
        IN (RawStructurallyValid(d) /\ (RawHasDuplicate(d.row_var) \/ RawHasDuplicate(d.col_var)))
           => /\ ValidationFailed
              /\ Len(ValidationLines) = 1
              /\ RawOverlap(d) = {} =>
                   IF RawHasDuplicate(d.row_var)
                   THEN IsDuplicateLine(ValidationLines[1], "row_var", d.row_var[2])
                   ELSE IsDuplicateLine(ValidationLines[1], "col_var", d.col_var[2])
C4_Witness ==
    /\ Validated
    /\ RawStructurallyValid(config_dict[2])
    /\ RawOverlap(config_dict[2]) = {}
    /\ RawHasDuplicate(config_dict[2].row_var)
    /\ RawHasDuplicate(config_dict[2].col_var)
    /\ ValidationFailed

\* C5: the list load_data passes to the data fetch holds each name of
\* row_var, col_var, value_var, the configured pweight and the configured
\* secondary_ref exactly once and nothing else.
C5_RequiredVarsExact ==
    "pdataframe_from_data" \in Range(calls) =>
        LET c == config[1]
            names == Range(c.row_var) \cup Range(c.col_var) \cup {c.value_var}
                       \cup ({c.pweight, c.secondary_ref} \ {PyNone})
        IN /\ Range(st_import_vars) = names
           /\ Len(st_import_vars) = Cardinality(names)

Inner ==
    IF raised["validate_config"] # <<>> THEN raised["validate_config"][1]
    ELSE raised["load_data"][1]

\* C7 as stated: every exception that escapes stata_to_df is a taxonomy
\* error: a ConfigValidationError or DataLoaderError unchanged, anything else
\* wrapped as StataToDfBaseError.
C7_EscapesAreTaxonomy ==
    Raised(result) =>
        /\ result.exc.cls \in Taxonomy
        /\ Inner.cls \in Taxonomy => result.exc = Inner
        /\ Inner.cls \notin Taxonomy =>
             result.exc.cls = "StataToDfBaseError" /\ result.exc.cause = <<Inner>>

\* C7 amended: every exception that escapes stata_to_df is the exception
\* validate_config or load_data raised, unchanged, whatever its class.
C7_EscapesUnchanged ==
    /\ Raised(result) => result.exc = Inner
    /\ (pc = "done" /\ (raised["validate_config"] # <<>> \/ raised["load_data"] # <<>>))
         => Raised(result)
C7_Witness ==
    /\ Raised(result)
    /\ result.exc.cls \notin Taxonomy

\* C8: when setup_stata succeeds and the fetch returns a table of zero rows,
\* stata_to_df returns that table and raises nothing.
C8_EmptyTableReturned ==
    (df # <<>> /\ df[1].nrows = 0) =>
        /\ result = Return(df[1])
        /\ raised = NotRaised
C8_Witness ==
    /\ pc = "done"
    /\ df # <<>>
    /\ df[1].nrows = 0
    /\ raised["setup_stata"] = <<>>

\* C9: the steps run in the order validate_config, setup_stata,
\* pdataframe_from_data, each at most once and only after the one before
\* succeeded: no setup_stata and no fetch after a failed validation, no fetch
\* when PYSTATA_PATH or STATA_EDITION is absent or the initialisation fails,
\* and no second fetch after a failed one.
StepOrder == <<"validate_config", "setup_stata", "pdataframe_from_data">>
C9_StepOrder ==
    /\ Len(calls) <= Len(StepOrder)
    /\ calls = SubSeq(StepOrder, 1, Len(calls))
    /\ "setup_stata" \in Range(calls) =>
         (raised["validate_config"] = <<>> /\ config # <<>>)
    /\ "pdataframe_from_data" \in Range(calls) =>
         /\ Truthy(PYSTATA_PATH)
         /\ Truthy(STATA_EDITION)
         /\ raised["setup_stata"] = <<>>
    /\ (pc = "done" /\ raised["validate_config"] # <<>>) => calls = <<"validate_config">>
    /\ (pc = "done" /\ raised["setup_stata"] # <<>>) =>
         calls = <<"validate_config", "setup_stata">>
    /\ raised["pdataframe_from_data"] # <<>> => (pc = "done" /\ calls = StepOrder)
C9_Witness ==
    /\ pc = "done"
    /\ calls = StepOrder
    /\ raised["pdataframe_from_data"] # <<>>

\* C10: validate_config is two-phase: the ConfigValidationError of a raw
\* configuration with structural violations lists every one of them and no
\* cross-field message; the cross-field check is evaluated only when there
\* is no structural violation, and then raises exactly one message.
C10_TwoPhase ==
    Validated =>
        LET d == config_dict[2]
            violations == RawStructuralViolations(d)
        IN /\ violations # {} =>
                /\ ValidationFailed
                /\ {ValidationLines[i].loc : i \in 1..Len(ValidationLines)} = violations
                /\ Len(ValidationLines) = Cardinality(violations)
           /\ (violations = {} /\ raised["validate_config"] # <<>>) =>
                /\ ValidationFailed
                /\ Len(ValidationLines) = 1
                /\ IsCrossFieldLine(ValidationLines[1])
           /\ raised["validate_config"] # <<>> =>
                ~(/\ \E i \in 1..Len(ValidationLines) : IsCrossFieldLine(ValidationLines[i])
                  /\ \E i \in 1..Len(ValidationLines) : ~IsCrossFieldLine(ValidationLines[i]))
C10_Witness ==
    /\ Validated
    /\ Cardinality(RawStructuralViolations(config_dict[2])) >= 2
    /\ RawOverlap(config_dict[2]) # {}
    /\ ValidationFailed

====
